---- MODULE Spec2Model ----
(***************************************************************************)
(* Model of scripts/export_onnx.py: the export pipeline of main() (load    *)
(* the model, export each declared sub-graph, optionally quantize it in    *)
(* place, inspect it, write manifest.json) and the explicit KV-cache       *)
(* bookkeeping of the FlowLM prefill/step wrappers.                        *)
(*                                                                         *)
(* Tensors are modelled along the dimensions the script itself slices:     *)
(* a KV tensor [2, B, T, H, Dh] is a sequence over the batch dimension of  *)
(* sequences over the time dimension; the entries stand for the            *)
(* [2, H, Dh] block stored at one (batch, time) position.                  *)
(* An exported graph file is modelled by its graph inputs, graph outputs   *)
(* and weight type.  Shapes and size_bytes of a manifest entry are not     *)
(* modelled.                                                               *)
(***************************************************************************)
EXTENDS Integers, Sequences, FiniteSets, TLC

(***************************************************************************)
(* Bounds of the model.                                                    *)
(***************************************************************************)
MaxKvLayers == 2   \* cache-bearing layers of flow_lm: 1..MaxKvLayers
MaxSeqLen == 4     \* --max-seq ranges over 1..MaxSeqLen
MaxBatch == 2      \* batch sizes 1..MaxBatch for the cache helpers
MaxVal == 2        \* cache entries are drawn from 1..MaxVal
MaxSteps == 4      \* autoregressive steps driven after prefill
MaxText == 5       \* text tokens T given to prefill: 1..MaxText
MaxCalls == 3      \* forward calls made on one wrapper

VARIABLES
    \* ---- main() ----
    pc,            \* position of main(): the next call it makes
    exit_kind,     \* "none" while running, then "ok" | "SystemExit" | "exception"
    message,       \* text of the error the process ended with ("" if none)
    env,           \* what is installed / present on the machine
    args,          \* parsed command line
    model_loaded,  \* TTSModel.load_model has returned
    specs,         \* list[ExportSpec] returned by build_specs
    idx,           \* position of the for loop over specs (1-based)
    manifest,      \* the manifest dict being accumulated
    fs,            \* files of out_dir: filename -> content
    log,           \* order of the file-system effects of the run
    \* ---- KV-cache helpers and FlowLM wrappers ----
    kv_mode,       \* which KV scenario this behaviour runs ("off" under Spec)
    max_seq,       \* max_sequence_length of the wrappers
    kv_in,         \* kv_list handed to the next call
    offset_in,     \* offset tensor handed to the next call (int64[1])
    state,         \* model_state built by the last call
    kv_out,        \* kv_list returned by the last call
    offset_out,    \* offset tensor returned by the last call
    text_len,      \* T given to prefill
    steps,         \* step calls that have returned
    gen_pc,        \* "prefill" | "step" | "error" | "rebuild" | "extract" | "done"
    \* ---- wrappers that keep a base_state ----
    wrapper,       \* "flow_lm_main" | "mimi_decoder" ("off" when none is built)
    heap,          \* objects the wrapper can reach: dicts and tensors, by id
    base_state,    \* self.base_state: module -> id of its state dict
    offset_update, \* how the model advances a module's offset
    last_input,    \* arguments of the last forward call
    last_result,   \* what the last forward call returned or raised
    calls          \* forward calls made so far

main_vars == <<pc, exit_kind, message, env, args, model_loaded, specs, idx,
               manifest, fs, log>>
kv_vars == <<kv_mode, max_seq, kv_in, offset_in, state, kv_out, offset_out,
             text_len, steps, gen_pc>>
fw_vars == <<wrapper, heap, base_state, offset_update, last_input, last_result,
            calls>>
vars == <<main_vars, kv_vars, fw_vars>>

(***************************************************************************)
(* pathlib: a path is the string "<dir>/<name>".                           *)
(***************************************************************************)
RECURSIVE LastIndexOf(_, _, _)
LastIndexOf(s, ch, i) ==
    IF i = 0 THEN 0
    ELSE IF SubSeq(s, i, i) = ch THEN i
    ELSE LastIndexOf(s, ch, i - 1)

\* Path.__truediv__
path_join(dir, filename) == dir \o "/" \o filename

\* PurePath.name: the final path component
path_name(path) ==
    SubSeq(path, LastIndexOf(path, "/", Len(path)) + 1, Len(path))

\* PurePath.suffix: the text of the name from its last dot on, unless that
\* dot is the first or the last character of the name
path_suffix(path) ==
    LET name == path_name(path)
        d == LastIndexOf(name, ".", Len(name))
    IN IF 1 < d /\ d < Len(name) THEN SubSeq(name, d, Len(name)) ELSE ""

\* PurePath.with_suffix
with_suffix(path, suffix) ==
    LET old == path_suffix(path)
    IN IF old = "" THEN path \o suffix
       ELSE SubSeq(path, 1, Len(path) - Len(old)) \o suffix

(***************************************************************************)
(* build_specs: the declared sub-graphs.                                   *)
(***************************************************************************)
kv_names(n) == [i \in 1..n |-> "kv_" \o ToString(i - 1)]

ExportSpec(name, filename, input_names, output_names) ==
    [name |-> name, filename |-> filename,
     input_names |-> input_names, output_names |-> output_names]

build_specs(num_kv_layers) ==
    LET _kv_names == kv_names(num_kv_layers)
    IN <<
        ExportSpec("text_conditioner", "text_conditioner.onnx",
                   <<"tokens">>, <<"text_embeddings">>),
        ExportSpec("flow_lm_main", "flow_lm_main.onnx",
                   <<"sequence", "text_embeddings">>,
                   <<"last_hidden", "eos_logits">>),
        ExportSpec("flow_lm_prefill", "flow_lm_prefill.onnx",
                   <<"text_embeddings">>, _kv_names \o <<"offset">>),
        ExportSpec("flow_lm_step", "flow_lm_step.onnx",
                   <<"sequence_frame">> \o _kv_names \o <<"offset">>,
                   <<"last_hidden", "eos_logits">> \o _kv_names \o <<"offset">>),
        ExportSpec("flow_lm_flow", "flow_lm_flow.onnx",
                   <<"condition", "s", "t", "x">>, <<"flow_direction">>),
        ExportSpec("latent_to_mimi", "latent_to_mimi.onnx",
                   <<"latent">>, <<"mimi_latent">>),
        ExportSpec("mimi_encoder", "mimi_encoder.onnx",
                   <<"audio">>, <<"latent">>),
        ExportSpec("mimi_decoder", "mimi_decoder.onnx",
                   <<"latent">>, <<"audio">>)
    >>

\* the sub-graphs the module docstring lists under "Exports:"
DocstringExports ==
    {"text_conditioner", "flow_lm_main", "flow_lm_flow", "latent_to_mimi",
     "mimi_encoder", "mimi_decoder"}

(***************************************************************************)
(* export_one: torch.onnx.export names the graph's values.  The traced     *)
(* graph's inputs are named from input_names, then its outputs from        *)
(* output_names; value names of a graph are unique, and naming a value     *)
(* with a name another value holds renames that other value to             *)
(* "<name>.<k>" for the first free k >= 1.                                 *)
(***************************************************************************)
RECURSIVE FreeSuffix(_, _, _)
FreeSuffix(names, name, k) ==
    LET candidate == name \o "." \o ToString(k)
    IN IF \E w \in DOMAIN names : names[w] = candidate
       THEN FreeSuffix(names, name, k + 1)
       ELSE candidate

setDebugName(names, v, name) ==
    IF names[v] = name THEN names
    ELSE LET owners == {w \in DOMAIN names : names[w] = name}
         IN IF owners = {} THEN [names EXCEPT ![v] = name]
            ELSE LET w == CHOOSE w \in owners : TRUE
                 IN [names EXCEPT ![w] = FreeSuffix(names, name, 1),
                                  ![v] = name]

RECURSIVE set_names(_, _, _, _)
set_names(names, first, name_list, k) ==
    IF k > Len(name_list) THEN names
    ELSE set_names(setDebugName(names, first + k, name_list[k]),
                   first, name_list, k + 1)

\* the names of the traced graph's values after export: inputs first
graph_value_names(spec) ==
    LET ni == Len(spec.input_names)
        no == Len(spec.output_names)
        traced == [v \in 1..(ni + no) |-> "%" \o ToString(v)]
        named_in == set_names(traced, 0, spec.input_names, 1)
    IN set_names(named_in, ni, spec.output_names, 1)

\* element type of a declared tensor: the token ids and the offset are
\* torch.long, every other example tensor is float32
example_elem_type(declared_name) ==
    IF declared_name \in {"tokens", "offset"} THEN "INT64" ELSE "FLOAT"

\* the file torch.onnx.export writes for a spec
exported_graph(spec) ==
    LET ni == Len(spec.input_names)
        no == Len(spec.output_names)
        names == graph_value_names(spec)
    IN [kind |-> "onnx",
        inputs |-> [k \in 1..ni |->
            [name |-> names[k],
             elem_type |-> example_elem_type(spec.input_names[k])]],
        outputs |-> [k \in 1..no |->
            [name |-> names[ni + k],
             elem_type |-> example_elem_type(spec.output_names[k])]],
        weights |-> "float32"]

\* faulty variant: the file is named after the graph, not after spec.filename
export_out_path_by_name(spec, out_dir) == path_join(out_dir, spec.name)

export_out_path(spec, out_dir) == path_join(out_dir, spec.filename)

(***************************************************************************)
(* Files of the run.                                                       *)
(***************************************************************************)
NoFile == [kind |-> "none"]
PartialFile == [kind |-> "partial"]

fs_write(files, path, content) ==
    [p \in DOMAIN files \cup {path} |-> IF p = path THEN content ELSE files[p]]

\* faulty variant: copies src over dst and leaves src behind
shutil_move_copies(files, src, dst) ==
    [p \in DOMAIN files \cup {dst} |-> IF p = dst THEN files[src] ELSE files[p]]

\* shutil.move(src, dst) inside one directory: a rename
shutil_move(files, src, dst) ==
    [p \in DOMAIN files \cup {dst} |->
        IF p = dst THEN files[src]
        ELSE IF p = src THEN NoFile
        ELSE files[p]]

fs_exists(files, path) == path \in DOMAIN files /\ files[path].kind # "none"

(***************************************************************************)
(* quantize_int8: quantize to a temporary file, then move it over path.    *)
(***************************************************************************)
\* onnxruntime's quantize_dynamic: same graph interface, INT8 weights
quantize_dynamic(graph) == [graph EXCEPT !.weights = "int8"]

quantize_tmp_path(path) == with_suffix(path, ".int8.tmp.onnx")

quantize_int8(files, path) ==
    LET tmp == quantize_tmp_path(path)
        quantized == fs_write(files, tmp, quantize_dynamic(files[path]))
    IN shutil_move(quantized, tmp, path)

(***************************************************************************)
(* inspect_onnx and the manifest entry of main().                          *)
(***************************************************************************)
\* TensorProto.DataType.Name(elem_type).lower()
dtype_name(elem_type) ==
    CASE elem_type = "FLOAT" -> "float"
      [] elem_type = "INT64" -> "int64"
      [] OTHER -> "undefined"

to_entries(values) ==
    [k \in 1..Len(values) |->
        [name |-> values[k].name, dtype |-> dtype_name(values[k].elem_type)]]

inspect_onnx(files, path) ==
    LET graph == files[path]
    IN [filename |-> path_name(path),
        inputs |-> to_entries(graph.inputs),
        outputs |-> to_entries(graph.outputs)]

\* {"name": spec.name, "size_bytes": ..., **inspect_onnx(out_path)}
manifest_entry(spec, files, path) ==
    LET inspected == inspect_onnx(files, path)
    IN [name |-> spec.name,
        filename |-> inspected.filename,
        inputs |-> inspected.inputs,
        outputs |-> inspected.outputs]

\* faulty variant: the new entry replaces the list instead of extending it
manifest_append_overwrites(m, entry) == [m EXCEPT !.graphs = <<entry>>]

manifest_append(m, entry) == [m EXCEPT !.graphs = Append(@, entry)]

(***************************************************************************)
(* main(): one action per call it makes; a call that raises ends the       *)
(* process (nothing in the script catches an exception of the run).        *)
(***************************************************************************)
OutDir == "models/onnx"
ManifestPath == path_join(OutDir, "manifest.json")

Event(op, name) == [op |-> op, name |-> name]

Exit(kind, text) ==
    /\ pc' = "exit"
    /\ exit_kind' = kind
    /\ message' = text

Goto(next) ==
    /\ pc' = next
    /\ UNCHANGED <<exit_kind, message>>

\* lines 26-33: the module-level import of onnx
ImportOnnx ==
    /\ pc = "import"
    /\ IF env.onnx
       THEN Goto("parse")
       ELSE Exit("SystemExit", "onnx package is required for export_onnx.py")
    /\ UNCHANGED <<env, args, model_loaded, specs, idx, manifest, fs, log, kv_vars, fw_vars>>

\* lines 480-489: parse the command line, create out_dir
ParseArgs ==
    /\ pc = "parse"
    /\ Goto("check_models")
    /\ log' = Append(log, Event("mkdir", OutDir))
    /\ UNCHANGED <<env, args, model_loaded, specs, idx, manifest, fs, kv_vars, fw_vars>>

\* faulty variant: the existence check is skipped
CheckModelsDir_unchecked ==
    /\ pc = "check_models"
    /\ Goto("load")
    /\ UNCHANGED <<env, args, model_loaded, specs, idx, manifest, fs, log, kv_vars, fw_vars>>

\* lines 491-493
CheckModelsDir ==
    /\ pc = "check_models"
    /\ IF env.models_dir_exists
       THEN Goto("load")
       ELSE Exit("SystemExit", "models-dir does not exist")
    /\ UNCHANGED <<env, args, model_loaded, specs, idx, manifest, fs, log, kv_vars, fw_vars>>

\* lines 497-500: TTSModel.load_model returns or raises
LoadModel ==
    /\ pc = "load"
    /\ \E ok \in BOOLEAN :
        IF ok
        THEN /\ Goto("build")
             /\ model_loaded' = TRUE
             /\ log' = Append(log, Event("load_model", args.variant))
        ELSE /\ Exit("exception", "load_model failed")
             /\ UNCHANGED <<model_loaded, log>>
    /\ UNCHANGED <<env, args, specs, idx, manifest, fs, kv_vars, fw_vars>>

\* lines 502-507
BuildSpecs ==
    /\ pc = "build"
    /\ specs' = build_specs(env.num_kv_layers)
    /\ manifest' = [variant |-> args.variant, int8 |-> args.int8, graphs |-> <<>>]
    /\ idx' = 1
    /\ Goto(IF Len(specs') = 0 THEN "write" ELSE "export")
    /\ UNCHANGED <<env, args, model_loaded, fs, log, kv_vars, fw_vars>>

\* line 510: export_one(spec, out_dir) returns or raises
ExportOne ==
    /\ pc = "export"
    /\ LET spec == specs[idx]
           out_path == export_out_path(spec, OutDir)
       IN \E ok \in BOOLEAN :
            IF ok
            THEN /\ fs' = fs_write(fs, out_path, exported_graph(spec))
                 /\ log' = Append(log, Event("export", spec.name))
                 /\ Goto(IF args.int8 THEN "quantize" ELSE "record")
            ELSE /\ Exit("exception", "export failed")
                 /\ UNCHANGED <<fs, log>>
    /\ UNCHANGED <<env, args, model_loaded, specs, idx, manifest, kv_vars, fw_vars>>

\* lines 511-512: quantize_int8(out_path) returns or raises
QuantizeInt8 ==
    /\ pc = "quantize"
    /\ LET spec == specs[idx]
           out_path == export_out_path(spec, OutDir)
       IN IF ~env.onnxruntime
          THEN /\ Exit("exception",
                       "--int8 requested but onnxruntime quantization is unavailable")
               /\ UNCHANGED <<fs, log>>
          ELSE \E outcome \in {"ok", "raises", "raises_partial_tmp"} :
                 CASE outcome = "ok" ->
                        /\ fs' = quantize_int8(fs, out_path)
                        /\ log' = Append(log, Event("quantize", spec.name))
                        /\ Goto("record")
                   [] outcome = "raises" ->
                        /\ Exit("exception", "quantize_dynamic failed")
                        /\ UNCHANGED <<fs, log>>
                   [] outcome = "raises_partial_tmp" ->
                        /\ Exit("exception", "quantize_dynamic failed")
                        /\ fs' = fs_write(fs, quantize_tmp_path(out_path), PartialFile)
                        /\ UNCHANGED log
    /\ UNCHANGED <<env, args, model_loaded, specs, idx, manifest, kv_vars, fw_vars>>

\* faulty variant: a failed inspection is swallowed and the loop goes on
RecordGraph_swallows ==
    /\ pc = "record"
    /\ LET spec == specs[idx]
           out_path == export_out_path(spec, OutDir)
       IN \E ok \in BOOLEAN :
            /\ IF ok
               THEN /\ manifest' = manifest_append(manifest,
                                                   manifest_entry(spec, fs, out_path))
                    /\ log' = Append(log, Event("inspect", spec.name))
               ELSE UNCHANGED <<manifest, log>>
            /\ idx' = idx + 1
            /\ Goto(IF idx = Len(specs) THEN "write" ELSE "export")
    /\ UNCHANGED <<env, args, model_loaded, specs, fs, kv_vars, fw_vars>>

\* lines 513-519: stat and inspect the file, append its manifest entry
RecordGraph ==
    /\ pc = "record"
    /\ LET spec == specs[idx]
           out_path == export_out_path(spec, OutDir)
       IN \E ok \in BOOLEAN :
            IF ok
            THEN /\ manifest' = manifest_append(manifest,
                                                manifest_entry(spec, fs, out_path))
                 /\ log' = Append(log, Event("inspect", spec.name))
                 /\ idx' = idx + 1
                 /\ Goto(IF idx = Len(specs) THEN "write" ELSE "export")
            ELSE /\ Exit("exception", "inspect failed")
                 /\ UNCHANGED <<manifest, log, idx>>
    /\ UNCHANGED <<env, args, model_loaded, specs, fs, kv_vars, fw_vars>>

\* lines 521-524
WriteManifest ==
    /\ pc = "write"
    /\ fs' = fs_write(fs, ManifestPath, [kind |-> "json", value |-> manifest])
    /\ log' = Append(log, Event("write_manifest", "manifest.json"))
    /\ Exit("ok", "")
    /\ UNCHANGED <<env, args, model_loaded, specs, idx, manifest, kv_vars, fw_vars>>

\* no wrapper with a base_state has been built
FwOff ==
    /\ wrapper = "off"
    /\ heap = <<>>
    /\ base_state = <<>>
    /\ offset_update = "in_place"
    /\ last_input = [positions |-> 0, seed |-> 0]
    /\ last_result = [status |-> "none", context |-> <<>>]
    /\ calls = 0

KvOff ==
    /\ kv_mode = "off"
    /\ max_seq = 1
    /\ kv_in = <<>>
    /\ offset_in = <<0>>
    /\ state = <<>>
    /\ kv_out = <<>>
    /\ offset_out = <<0>>
    /\ text_len = 0
    /\ steps = 0
    /\ gen_pc = "off"

Init ==
    /\ pc = "import"
    /\ exit_kind = "none"
    /\ message = ""
    /\ env \in [onnx : BOOLEAN, onnxruntime : BOOLEAN,
                models_dir_exists : BOOLEAN, num_kv_layers : 1..MaxKvLayers]
    /\ args \in [variant : {"b6369a24"}, int8 : BOOLEAN]
    /\ model_loaded = FALSE
    /\ specs = <<>>
    /\ idx = 0
    /\ manifest = [variant |-> "", int8 |-> FALSE, graphs |-> <<>>]
    /\ fs = <<>>
    /\ log = <<>>
    /\ KvOff
    /\ FwOff

Next ==
    \/ ImportOnnx
    \/ ParseArgs
    \/ CheckModelsDir
    \/ LoadModel
    \/ BuildSpecs
    \/ ExportOne
    \/ QuantizeInt8
    \/ RecordGraph
    \/ WriteManifest

Spec == Init /\ [][Next]_vars

(***************************************************************************)
(* Properties of a run of main().                                          *)
(***************************************************************************)
RunSucceeded == pc = "exit" /\ exit_kind = "ok"
RunFailed == pc = "exit" /\ exit_kind \in {"SystemExit", "exception"}

Declared == build_specs(env.num_kv_layers)
DeclaredPath(k) == path_join(OutDir, Declared[k].filename)
WrittenManifest == fs[ManifestPath].value
EntryNames(entries) == [k \in 1..Len(entries) |-> entries[k].name]
GraphFiles == {p \in DOMAIN fs : fs[p].kind = "onnx"}

\* C1: after a successful run the "graphs" list of manifest.json holds one
\* entry per ExportSpec of build_specs and no other, in build_specs order,
\* each with that spec's name and filename.
C1_ManifestListsDeclaredGraphs ==
    RunSucceeded =>
        /\ fs_exists(fs, ManifestPath)
        /\ Len(WrittenManifest.graphs) = Len(Declared)
        /\ \A k \in 1..Len(Declared) :
            /\ WrittenManifest.graphs[k].name = Declared[k].name
            /\ WrittenManifest.graphs[k].filename = Declared[k].filename

C1_Witness ==
    /\ RunSucceeded
    /\ fs_exists(fs, ManifestPath)
    /\ Len(WrittenManifest.graphs) > 1
    /\ ~args.int8

\* C2: after a successful run, with or without --int8, every declared spec
\* has its file spec.filename in the output directory, and no two specs
\* wrote the same file (there are as many graph files as specs).
C2_EverySpecHasItsFile ==
    RunSucceeded =>
        /\ \A k \in 1..Len(Declared) :
            /\ fs_exists(fs, DeclaredPath(k))
            /\ fs[DeclaredPath(k)].kind = "onnx"
        /\ \A j, k \in 1..Len(Declared) :
            j # k => DeclaredPath(j) # DeclaredPath(k)
        /\ Cardinality(GraphFiles) = Len(Declared)

C2_Witness ==
    /\ RunSucceeded
    /\ args.int8
    /\ \A k \in 1..Len(Declared) : fs_exists(fs, DeclaredPath(k))

\* the manifest entry a run without --int8 records for a spec
UnquantizedEntry(spec) ==
    LET path == path_join(OutDir, spec.filename)
    IN manifest_entry(spec, fs_write(<<>>, path, exported_graph(spec)), path)

QuantizeFailed ==
    /\ RunFailed
    /\ message \in {"quantize_dynamic failed",
                    "--int8 requested but onnxruntime quantization is unavailable"}

C4_ManifestNamesMatchSpec ==
    \A k \in 1..Len(manifest.graphs) :
        /\ EntryNames(manifest.graphs[k].inputs) = Declared[k].input_names
        /\ EntryNames(manifest.graphs[k].outputs) = Declared[k].output_names

\* the file-system effects a complete run performs, in order
RECURSIVE ExpectedGraphLog(_, _, _)
ExpectedGraphLog(declared, int8, k) ==
    IF k > Len(declared) THEN <<Event("write_manifest", "manifest.json")>>
    ELSE <<Event("export", declared[k].name)>>
         \o (IF int8 THEN <<Event("quantize", declared[k].name)>> ELSE <<>>)
         \o <<Event("inspect", declared[k].name)>>
         \o ExpectedGraphLog(declared, int8, k + 1)

IsGraphEvent(e) == e.op \in {"export", "quantize", "inspect", "write_manifest"}
GraphLog == SelectSeq(log, IsGraphEvent)
IsPrefix(a, b) == Len(a) <= Len(b) /\ a = SubSeq(b, 1, Len(a))

\* C5: a failure while exporting, quantizing or inspecting ends the run:
\* the effects of a run are a prefix of the complete sequence (nothing is
\* retried or skipped), a failed run has written no manifest.json, and
\* manifest.json exists only after every graph was exported, quantized when
\* --int8, and inspected.
C5_FailuresAreFatal ==
    /\ IsPrefix(GraphLog, ExpectedGraphLog(Declared, args.int8, 1))
    /\ RunFailed => ~fs_exists(fs, ManifestPath)
    /\ fs_exists(fs, ManifestPath) =>
        /\ exit_kind = "ok"
        /\ GraphLog = ExpectedGraphLog(Declared, args.int8, 1)

C5_Witness ==
    /\ RunFailed
    /\ message = "inspect failed"
    /\ idx > 1
    /\ ~fs_exists(fs, ManifestPath)

MissingPackage == ~env.onnx \/ (args.int8 /\ ~env.onnxruntime)

\* C7: when a required package is missing (onnx; onnxruntime's quantization
\* with --int8) the process exits before any graph file is exported.
C7_MissingPackageExitsBeforeExport ==
    MissingPackage => GraphFiles = {} /\ GraphLog = <<>>

\* C9: the graphs declared by build_specs and exported by main() are the
\* six sub-graphs the module docstring lists.
C9_ExportsAreTheDocstringList ==
    /\ specs # <<>> => {specs[k].name : k \in 1..Len(specs)} = DocstringExports
    /\ RunSucceeded =>
        {log[j].name : j \in {i \in 1..Len(log) : log[i].op = "export"}}
            = DocstringExports

(***************************************************************************)
(* KV-cache helpers.  flow_lm is given by the number of its modules that   *)
(* have a _cache_backend, in named_modules() order; a model_state maps     *)
(* layer i to [cache, offset].                                             *)
(***************************************************************************)
NaN == [seed |-> 0, layer |-> 0, row |-> 0, pos |-> 0]

\* the [2, H, Dh] block a layer holds for one (row, position)
Block(seed, layer, row, pos) ==
    [seed |-> seed, layer |-> layer, row |-> row, pos |-> pos]

Min(a, b) == IF a <= b THEN a ELSE b

\* x[:n] of a Python sequence, n >= 0
SliceTo(x, n) == SubSeq(x, 1, Min(n, Len(x)))

extract_kv_tensors(flow_lm, st, t_written) ==
    [kv_list |-> [i \in 1..flow_lm |->
        [r \in 1..Len(st[i].cache) |-> SliceTo(st[i].cache[r], t_written)]],
     offset |-> <<t_written>>]

\* cache[:, :, :t_written_local] = kv raises unless kv fits into max_seq
rebuild_fits(flow_lm, kv_list, max_len) ==
    \A i \in 1..flow_lm : Len(kv_list[i][1]) <= max_len

\* faulty variant: the cache is not padded back to max_seq
rebuild_state_from_kv_unpadded(flow_lm, kv_list, offset, max_len) ==
    [i \in 1..flow_lm |->
        [cache |-> kv_list[i],
         offset |-> [r \in 1..Len(kv_list[i]) |-> offset[1]]]]

rebuild_state_from_kv(flow_lm, kv_list, offset, max_len) ==
    [i \in 1..flow_lm |->
        LET kv == kv_list[i]
            t_written_local == Len(kv[1])
            b == Len(kv)
        IN [cache |-> [r \in 1..b |-> [p \in 1..max_len |->
                          IF p <= t_written_local THEN kv[r][p] ELSE NaN]],
            offset |-> [r \in 1..b |-> offset[1]]]]

(***************************************************************************)
(* pocket_tts as the wrappers use it: init_states gives every layer a      *)
(* NaN-filled cache of sequence_length positions and offset 0; the         *)
(* backbone writes the keys/values of its n new positions at               *)
(* offset..offset+n-1 of every layer and advances the offset, and raises   *)
(* when they do not fit into the cache.                                    *)
(***************************************************************************)
init_states(flow_lm, batch_size, sequence_length) ==
    [i \in 1..flow_lm |->
        [cache |-> [r \in 1..batch_size |-> [p \in 1..sequence_length |-> NaN]],
         offset |-> [r \in 1..batch_size |-> 0]]]

backbone_fits(st, n) ==
    \A i \in DOMAIN st : \A r \in DOMAIN st[i].cache :
        st[i].offset[r] + n <= Len(st[i].cache[r])

backbone(st, n, seed) ==
    [i \in DOMAIN st |->
        [cache |-> [r \in DOMAIN st[i].cache |->
            [p \in DOMAIN st[i].cache[r] |->
                IF st[i].offset[r] < p /\ p <= st[i].offset[r] + n
                THEN Block(seed, i, r, p)
                ELSE st[i].cache[r][p]]],
         offset |-> [r \in DOMAIN st[i].offset |-> st[i].offset[r] + n]]]

\* faulty variant: the step extracts at the old offset
step_new_t_stale(offset) == offset[1]

\* line 244: new_t = int(offset.item()) + 1
step_new_t(offset) == offset[1] + 1

NumKvLayers == env.num_kv_layers

\* FlowLMPrefillWrapper.forward on text embeddings of text_len tokens
PrefillForward ==
    /\ kv_mode = "generate"
    /\ gen_pc = "prefill"
    /\ LET T == text_len
           fresh == init_states(NumKvLayers, 1, max_seq)
       IN IF backbone_fits(fresh, T)
          THEN \E seed \in 1..MaxVal :
                 LET filled == backbone(fresh, T, seed)
                     result == extract_kv_tensors(NumKvLayers, filled, T)
                 IN /\ state' = filled
                    /\ kv_out' = result.kv_list
                    /\ offset_out' = result.offset
                    /\ gen_pc' = "step"
          ELSE /\ gen_pc' = "error"
               /\ UNCHANGED <<state, kv_out, offset_out>>
    /\ UNCHANGED <<kv_mode, max_seq, kv_in, offset_in, text_len, steps, main_vars, fw_vars>>

\* FlowLMStepWrapper.forward, called with the kv/offset outputs of the
\* previous call as the runtime feeds them back
StepForward ==
    /\ kv_mode = "generate"
    /\ gen_pc = "step"
    /\ steps < MaxSteps
    /\ kv_in' = kv_out
    /\ offset_in' = offset_out
    /\ IF ~rebuild_fits(NumKvLayers, kv_out, max_seq)
       THEN /\ gen_pc' = "error"
            /\ UNCHANGED <<state, kv_out, offset_out, steps>>
       ELSE LET rebuilt == rebuild_state_from_kv(NumKvLayers, kv_out, offset_out,
                                                 max_seq)
            IN IF backbone_fits(rebuilt, 1)
               THEN \E seed \in 1..MaxVal :
                      LET stepped == backbone(rebuilt, 1, seed)
                          new_t == step_new_t(offset_out)
                          result == extract_kv_tensors(NumKvLayers, stepped, new_t)
                      IN /\ state' = stepped
                         /\ kv_out' = result.kv_list
                         /\ offset_out' = result.offset
                         /\ steps' = steps + 1
                         /\ UNCHANGED gen_pc
               ELSE /\ gen_pc' = "error"
                    /\ state' = rebuilt
                    /\ UNCHANGED <<kv_out, offset_out, steps>>
    /\ UNCHANGED <<kv_mode, max_seq, text_len, main_vars, fw_vars>>

MainIdle ==
    /\ pc = "off"
    /\ exit_kind = "none"
    /\ message = ""
    /\ args = [variant |-> "b6369a24", int8 |-> FALSE]
    /\ model_loaded = FALSE
    /\ specs = <<>>
    /\ idx = 0
    /\ manifest = [variant |-> "", int8 |-> FALSE, graphs |-> <<>>]
    /\ fs = <<>>
    /\ log = <<>>
    /\ env \in [onnx : {TRUE}, onnxruntime : {TRUE}, models_dir_exists : {TRUE},
                num_kv_layers : 1..MaxKvLayers]

\* a runtime driving generation: prefill once, then step after step
InitGenerate ==
    /\ MainIdle
    /\ FwOff
    /\ kv_mode = "generate"
    /\ max_seq \in 1..MaxSeqLen
    /\ text_len \in 1..MaxText
    /\ kv_in = <<>>
    /\ offset_in = <<0>>
    /\ state = <<>>
    /\ kv_out = <<>>
    /\ offset_out = <<0>>
    /\ steps = 0
    /\ gen_pc = "prefill"

NextGenerate ==
    \/ PrefillForward
    \/ StepForward

SpecGenerate == InitGenerate /\ [][NextGenerate]_vars

(***************************************************************************)
(* rebuild_state_from_kv followed by extract_kv_tensors on given inputs.   *)
(***************************************************************************)
\* a kv_list of `layers` tensors [2, b, t, H, Dh] with pairwise distinct blocks
InputKv(layers, b, t, seed) ==
    [i \in 1..layers |-> [r \in 1..b |-> [p \in 1..t |-> Block(seed, i, r, p)]]]

InitRoundTrip ==
    /\ MainIdle
    /\ FwOff
    /\ kv_mode = "roundtrip"
    /\ max_seq \in 1..MaxSeqLen
    /\ text_len \in 0..MaxSeqLen
    /\ \E b \in 1..MaxBatch, seed \in 1..MaxVal :
        kv_in = InputKv(NumKvLayers, b, text_len, seed)
    /\ \E o \in 0..MaxSeqLen : offset_in = <<o>>
    /\ state = <<>>
    /\ kv_out = <<>>
    /\ offset_out = <<0>>
    /\ steps = 0
    /\ gen_pc = "rebuild"

Rebuild ==
    /\ kv_mode = "roundtrip"
    /\ gen_pc = "rebuild"
    /\ IF rebuild_fits(NumKvLayers, kv_in, max_seq)
       THEN /\ state' = rebuild_state_from_kv(NumKvLayers, kv_in, offset_in, max_seq)
            /\ gen_pc' = "extract"
       ELSE /\ gen_pc' = "error"
            /\ UNCHANGED state
    /\ UNCHANGED <<kv_mode, max_seq, kv_in, offset_in, kv_out, offset_out,
                   text_len, steps, main_vars, fw_vars>>

Extract ==
    /\ kv_mode = "roundtrip"
    /\ gen_pc = "extract"
    /\ LET result == extract_kv_tensors(NumKvLayers, state, text_len)
       IN /\ kv_out' = result.kv_list
          /\ offset_out' = result.offset
    /\ gen_pc' = "done"
    /\ UNCHANGED <<kv_mode, max_seq, kv_in, offset_in, state, text_len, steps,
                   main_vars, fw_vars>>

NextRoundTrip ==
    \/ Rebuild
    \/ Extract

SpecRoundTrip == InitRoundTrip /\ [][NextRoundTrip]_vars

(***************************************************************************)
(* Properties of the KV-cache bookkeeping.                                 *)
(***************************************************************************)
SeqLen(kv) == Len(kv[1])
PrefillReturned == kv_out # <<>>

\* C8 as stated: for every T >= 1 and n >= 0 prefill and each of the n steps
\* return, and after n steps the offset is T + n and every kv_i has sequence
\* length equal to the offset.
C8_OffsetTracksKvLength ==
    /\ gen_pc # "error"
    /\ gen_pc = "step" =>
        /\ offset_out = <<text_len + steps>>
        /\ \A i \in 1..NumKvLayers : SeqLen(kv_out[i]) = offset_out[1]

\* C8 amended: the same for every T >= 1 and n >= 0 with
\* T + n <= max_sequence_length: within that capacity no call fails, prefill
\* returns offset T with kv of length T, and after n steps the offset is
\* T + n and every kv_i has sequence length equal to the offset.
C8_OffsetTracksKvLengthWithinMaxSeq ==
    /\ (gen_pc = "error" /\ ~PrefillReturned) => text_len > max_seq
    /\ (gen_pc = "error" /\ PrefillReturned) => text_len + steps + 1 > max_seq
    /\ (gen_pc = "step" /\ text_len + steps <= max_seq) =>
        /\ offset_out = <<text_len + steps>>
        /\ Len(kv_out) = NumKvLayers
        /\ \A i \in 1..NumKvLayers : SeqLen(kv_out[i]) = offset_out[1]
    /\ (gen_pc = "step" /\ steps > 0) =>
        \A i \in 1..NumKvLayers : SeqLen(kv_out[i]) = SeqLen(kv_in[i]) + 1

C8_Witness ==
    /\ kv_mode = "generate"
    /\ gen_pc = "step"
    /\ steps >= 2
    /\ text_len + steps = max_seq
    /\ NumKvLayers > 1

\* C10: for a kv_list with one tensor per cache-bearing layer and sequence
\* length t <= max_seq, rebuild_state_from_kv gives every layer a cache of
\* exactly max_seq positions whose first t equal the given kv and whose
\* rest is NaN, with the offset expanded to the batch size; and
\* extract_kv_tensors on that state with t_written = t returns the given
\* kv tensors in the same layer order.
C10_PadThenTrimIsIdentity ==
    /\ gen_pc = "error" => text_len > max_seq
    /\ gen_pc \in {"extract", "done"} =>
        /\ Len(state) = NumKvLayers
        /\ \A i \in 1..NumKvLayers :
            /\ Len(state[i].cache) = Len(kv_in[i])
            /\ state[i].offset = [r \in 1..Len(kv_in[i]) |-> offset_in[1]]
            /\ \A r \in 1..Len(kv_in[i]) :
                /\ Len(state[i].cache[r]) = max_seq
                /\ \A p \in 1..max_seq :
                    state[i].cache[r][p] =
                        IF p <= text_len THEN kv_in[i][r][p] ELSE NaN
    /\ gen_pc = "done" => kv_out = kv_in

C10_Witness ==
    /\ kv_mode = "roundtrip"
    /\ gen_pc = "done"
    /\ 0 < text_len /\ text_len < max_seq
    /\ NumKvLayers > 1
    /\ Len(kv_in[1]) > 1
    /\ kv_out = kv_in

(***************************************************************************)
(* FlowLMMainWrapper and MimiDecoderWrapper: a base_state built once by    *)
(* init_states and cloned for every forward call.  Dicts and tensors are   *)
(* objects on a heap, so that two states can share them; an id is an       *)
(* index into heap.                                                        *)
(***************************************************************************)
DictObj(cache, offset) == [kind |-> "dict", cache |-> cache, offset |-> offset]
TensorObj(data) == [kind |-> "tensor", data |-> data]

\* the objects of a model_state of `modules` modules, placed after `base`
\* ids: module i owns its dict, its cache tensor and its offset tensor
dict_id(base, i) == base + 3 * (i - 1) + 1
cache_id(base, i) == base + 3 * (i - 1) + 2
offset_id(base, i) == base + 3 * (i - 1) + 3

\* the tensors a model_state holds, module by module
Deref(h, st) ==
    [i \in 1..Len(st) |->
        [cache |-> h[h[st[i]].cache].data, offset |-> h[h[st[i]].offset].data]]

\* lines 135 / 286: self.base_state = init_states(...)
construct_base_state(modules, max_len) ==
    LET values == init_states(modules, 1, max_len)
    IN [heap |-> [j \in 1..(3 * modules) |->
                    LET i == ((j - 1) \div 3) + 1
                        k == (j - 1) % 3
                    IN IF k = 0 THEN DictObj(cache_id(0, i), offset_id(0, i))
                       ELSE IF k = 1 THEN TensorObj(values[i].cache)
                       ELSE TensorObj(values[i].offset)],
        state |-> [i \in 1..modules |-> dict_id(0, i)]]

\* faulty variant: new dicts that still hold the tensors of the original
clone_model_state_shallow(h, st) ==
    LET base == Len(h)
    IN [heap |-> h \o [i \in 1..Len(st) |->
                        DictObj(h[st[i]].cache, h[st[i]].offset)],
        state |-> [i \in 1..Len(st) |-> base + i]]

\* clone_model_state: a new dict per module, every tensor cloned
clone_model_state(h, st) ==
    LET base == Len(h)
    IN [heap |-> h \o [j \in 1..(3 * Len(st)) |->
                        LET i == ((j - 1) \div 3) + 1
                            k == (j - 1) % 3
                        IN IF k = 0 THEN DictObj(cache_id(base, i), offset_id(base, i))
                           ELSE IF k = 1 THEN TensorObj(h[h[st[i]].cache].data)
                           ELSE TensorObj(h[h[st[i]].offset].data)],
        state |-> [i \in 1..Len(st) |-> dict_id(base, i)]]

\* the model run on model_state st with n new positions: every module's
\* cache tensor is written in place; its offset tensor is either advanced
\* in place or replaced in the module's dict by a new tensor
run_model(h, st, n, seed, update) ==
    LET after == backbone(Deref(h, st), n, seed)
        modules == 1..Len(st)
        written == [j \in 1..Len(h) |->
            IF \E i \in modules : j = h[st[i]].cache
            THEN TensorObj(after[CHOOSE i \in modules : j = h[st[i]].cache].cache)
            ELSE IF update = "in_place" /\ \E i \in modules : j = h[st[i]].offset
            THEN TensorObj(after[CHOOSE i \in modules : j = h[st[i]].offset].offset)
            ELSE IF update = "rebind" /\ \E i \in modules : j = st[i]
            THEN LET i == CHOOSE i \in modules : j = st[i]
                 IN DictObj(h[j].cache, Len(h) + i)
            ELSE h[j]]
    IN IF update = "rebind"
       THEN written \o [i \in modules |-> TensorObj(after[i].offset)]
       ELSE written

\* what the model output is computed from: the positions each module holds
\* once the call's own positions are written
model_context(values) ==
    [i \in 1..Len(values) |->
        [r \in 1..Len(values[i].cache) |->
            SliceTo(values[i].cache[r], values[i].offset[r])]]

\* forward of a wrapper holding base_state, on an input of n positions:
\* state = clone_model_state(self.base_state); run the model on state.
\* The clone is a local of forward and is gone when it returns.
wrapper_forward(h, base, n, seed, update) ==
    LET cloned == clone_model_state(h, base)
    IN IF backbone_fits(Deref(cloned.heap, cloned.state), n)
       THEN LET ran == run_model(cloned.heap, cloned.state, n, seed, update)
            IN [heap |-> SubSeq(ran, 1, Len(h)),
                result |-> [status |-> "ok",
                            context |-> model_context(Deref(ran, cloned.state))]]
       ELSE [heap |-> h,
             result |-> [status |-> "raises", context |-> <<>>]]

\* FlowLMMainWrapper.forward(sequence [1, S, ldim], text_embeddings [1, T, dim])
FlowLMMainForward ==
    /\ wrapper = "flow_lm_main"
    /\ calls < MaxCalls
    /\ \E S \in 1..MaxSeqLen, T \in 0..1, seed \in 1..MaxVal :
        LET out == wrapper_forward(heap, base_state, T + S, seed, offset_update)
        IN /\ heap' = out.heap
           /\ last_result' = out.result
           /\ last_input' = [positions |-> T + S, seed |-> seed]
    /\ calls' = calls + 1
    /\ UNCHANGED <<wrapper, base_state, offset_update, main_vars, kv_vars>>

\* MimiDecoderWrapper.forward(latent [1, mimi_dim, frames])
MimiDecoderForward ==
    /\ wrapper = "mimi_decoder"
    /\ calls < MaxCalls
    /\ \E frames \in 1..(MaxSeqLen + 1), seed \in 1..MaxVal :
        LET out == wrapper_forward(heap, base_state, frames, seed, offset_update)
        IN /\ heap' = out.heap
           /\ last_result' = out.result
           /\ last_input' = [positions |-> frames, seed |-> seed]
    /\ calls' = calls + 1
    /\ UNCHANGED <<wrapper, base_state, offset_update, main_vars, kv_vars>>

\* a wrapper right after __init__, then any sequence of forward calls
InitForward ==
    /\ MainIdle
    /\ kv_mode = "forward"
    /\ max_seq \in 1..MaxSeqLen
    /\ kv_in = <<>>
    /\ offset_in = <<0>>
    /\ state = <<>>
    /\ kv_out = <<>>
    /\ offset_out = <<0>>
    /\ text_len = 0
    /\ steps = 0
    /\ gen_pc = "off"
    /\ wrapper \in {"flow_lm_main", "mimi_decoder"}
    /\ offset_update \in {"in_place", "rebind"}
    /\ LET built == construct_base_state(NumKvLayers, max_seq)
       IN heap = built.heap /\ base_state = built.state
    /\ last_input = [positions |-> 0, seed |-> 0]
    /\ last_result = [status |-> "none", context |-> <<>>]
    /\ calls = 0

NextForward ==
    \/ FlowLMMainForward
    \/ MimiDecoderForward

SpecForward == InitForward /\ [][NextForward]_vars

\* the result of the same call on a wrapper that has just been constructed
FirstCallResult(input) ==
    LET fresh == init_states(NumKvLayers, 1, max_seq)
    IN IF backbone_fits(fresh, input.positions)
       THEN [status |-> "ok",
             context |-> model_context(backbone(fresh, input.positions, input.seed))]
       ELSE [status |-> "raises", context |-> <<>>]

\* C11: across any sequence of forward calls on FlowLMMainWrapper or
\* MimiDecoderWrapper the tensors of base_state stay as construction built
\* them, and the result of a forward call is the result that call has on a
\* newly constructed wrapper, whatever calls came before it.
C11_BaseStateUnchangedAcrossCalls ==
    wrapper # "off" =>
        /\ Deref(heap, base_state) = init_states(NumKvLayers, 1, max_seq)
        /\ calls > 0 => last_result = FirstCallResult(last_input)

C11_Witness ==
    /\ wrapper # "off"
    /\ calls >= 2
    /\ last_result.status = "ok"
    /\ offset_update = "in_place"
    /\ Deref(heap, base_state) = init_states(NumKvLayers, 1, max_seq)

====
